---- MODULE Spec2Model ----
(***************************************************************************)
(* Round orchestration of the cyber-arene debate engine.                   *)
(*                                                                         *)
(* Texts are sequences of lexemes.  A lexeme stands for one character or   *)
(* one fixed group of characters of the JavaScript string:                 *)
(*   "_"  a whitespace character        "a" "b" "c"  letters               *)
(*   "J"  the fence opener (json)      "F"  the bare fence                      *)
(*   "{" "}" ","  JSON punctuation      "Q"  a double quote                *)
(*   "S"  the member name "should_respond":   "C"  the name "content":     *)
(*   "X"  any other member name         "t" "f" "n" "1" "0"  JSON literals *)
(*        true, false, null, a non-zero number and zero                    *)
(***************************************************************************)
EXTENDS Integers, Sequences, FiniteSets, TLC

\* ------------------------------------------------------------------ bounds
MaxRoster == 3
MaxBudget == 2
MaxClock == 1
MaxActive == 2
MaxLines == 3
MaxChunks == 2
MaxLog == 2
MaxResets == 1
MaxShown == 2

\* ------------------------------------------------------------------- texts
Max(a, b) == IF a >= b THEN a ELSE b

RECURSIVE TrimStart(_)
TrimStart(s) ==
  IF s # <<>> /\ Head(s) = "_" THEN TrimStart(Tail(s)) ELSE s

RECURSIVE TrimEnd(_)
TrimEnd(s) ==
  IF s # <<>> /\ s[Len(s)] = "_" THEN TrimEnd(SubSeq(s, 1, Len(s) - 1)) ELSE s

Trim(s) == TrimEnd(TrimStart(s))

RECURSIVE RemoveAll(_, _)
RemoveAll(s, lex) ==
  IF s = <<>> THEN <<>>
  ELSE IF Head(s) = lex THEN RemoveAll(Tail(s), lex)
  ELSE <<Head(s)>> \o RemoveAll(Tail(s), lex)

stripJsonCodeFence(content) == Trim(RemoveAll(RemoveAll(content, "J"), "F"))

\* ------------------------------------------------------------ JSON.parse
Tok(t, v) == [t |-> t, v |-> v]
Absent == Tok("absent", <<>>)

RECURSIVE StrEnd(_, _)
StrEnd(s, i) ==
  IF i > Len(s) THEN 0 ELSE IF s[i] = "Q" THEN i ELSE StrEnd(s, i + 1)

RECURSIVE Lex(_)
Lex(s) ==
  IF s = <<>> THEN <<>>
  ELSE IF Head(s) = "_" THEN Lex(Tail(s))
  ELSE IF Head(s) = "Q"
    THEN LET e == StrEnd(s, 2)
         IN  IF e = 0 THEN <<Tok("bad", <<>>)>>
             ELSE <<Tok("str", SubSeq(s, 2, e - 1))>> \o Lex(SubSeq(s, e + 1, Len(s)))
  ELSE <<Tok(Head(s), <<>>)>> \o Lex(Tail(s))

IsValue(tok) == tok.t \in {"str", "t", "f", "n", "1", "0"}
IsKey(tok) == tok.t \in {"S", "C", "X"}

\* members of an object: key value ("," key value)*; a later member of the
\* same name overrides an earlier one
RECURSIVE Members(_, _)
Members(toks, acc) ==
  IF Len(toks) < 2 \/ ~IsKey(toks[1]) \/ ~IsValue(toks[2]) THEN [ok |-> FALSE]
  ELSE LET k == toks[1].t
           acc2 == [ok |-> TRUE,
                    sr |-> IF k = "S" THEN toks[2] ELSE acc.sr,
                    content |-> IF k = "C" THEN toks[2] ELSE acc.content]
       IN  IF Len(toks) = 2 THEN acc2
           ELSE IF toks[3].t = "," THEN Members(SubSeq(toks, 4, Len(toks)), acc2)
           ELSE [ok |-> FALSE]

JsonParse(s) ==
  LET toks == Lex(s)
      none == [ok |-> TRUE, sr |-> Absent, content |-> Absent]
  IN  IF Len(toks) = 1 /\ IsValue(toks[1]) THEN none
      ELSE IF Len(toks) >= 2 /\ toks[1].t = "{" /\ toks[Len(toks)].t = "}"
        THEN IF Len(toks) = 2 THEN none
             ELSE Members(SubSeq(toks, 2, Len(toks) - 1), none)
      ELSE [ok |-> FALSE]

\* Boolean(value)
Truthy(tok) == tok.t \in {"t", "1"} \/ (tok.t = "str" /\ tok.v # <<>>)

\* parseAgentResponse trimming the parsed content
parseAgentResponseTrimmed(content) ==
  LET cleaned == stripJsonCodeFence(content)
      parsed == JsonParse(cleaned)
  IN  IF parsed.ok
      THEN [shouldRespond |-> Truthy(parsed.sr),
            content |-> IF parsed.content.t = "str" THEN Trim(parsed.content.v) ELSE <<>>]
      ELSE [shouldRespond |-> TRUE, content |-> Trim(content)]

parseAgentResponse(content) ==
  LET cleaned == stripJsonCodeFence(content)
      parsed == JsonParse(cleaned)
  IN  IF parsed.ok
      THEN [shouldRespond |-> Truthy(parsed.sr),
            content |-> IF parsed.content.t = "str" THEN parsed.content.v ELSE <<>>]
      ELSE [shouldRespond |-> TRUE, content |-> Trim(content)]

\* ---------------------------------------------------------------- messages
\* Message: id is <<author, timestamp>> (the string `${agent.id}-${now()}`);
\* agentId 0 is null.  The seeded proposition has id "m0", here <<0, 0>>.
Null == <<>>
NoError == "null"

Msg(a, t, text) ==
  [id |-> <<a, t>>, agentId |-> a, role |-> "agent", content |-> text, time |-> "t"]
SystemMsg ==
  [id |-> <<0, 0>>, agentId |-> 0, role |-> "system", content |-> <<"a">>, time |-> "t"]

\* logs a caller can hand to a round: the proposition alone, or followed by
\* messages that earlier rounds appended at clock value 0
InputLogs(n) ==
  {<<SystemMsg>>}
    \cup (IF n = 1 THEN {<<SystemMsg, Msg(1, 0, <<"a">>)>>} ELSE {})
    \cup (IF n >= 2 THEN {<<SystemMsg, Msg(1, 0, <<"a">>), Msg(2, 0, <<"b">>)>>} ELSE {})

\* texts a transport can deliver as the body of one reply
SpeakJson == <<"{", "S", "t", ",", "C", "Q", "a", "Q", "}">>
PaddedJson == <<"J", "{", "C", "Q", "_", "b", "Q", ",", "S", "t", "}", "F">>
SilentJson == <<"{", "S", "f", "}">>
BlankJson == <<"{", "S", "t", ",", "C", "Q", "_", "Q", "}">>
Prose == <<"a", "_">>
Scalar == <<"1">>
Replies == {SpeakJson, PaddedJson, SilentJson, BlankJson, Prose, Scalar, <<>>}

\* the deltas a streaming transport delivers for a reply: two halves, one
\* piece for a single lexeme, none for an empty reply
Streams(r) ==
  IF r = <<>> THEN {<<>>}
  ELSE IF Len(r) = 1 THEN {<<r>>}
  ELSE {<<SubSeq(r, 1, Len(r) \div 2), SubSeq(r, Len(r) \div 2 + 1, Len(r))>>}

VARIABLES
  params,           \* RunArenaRoundParams: n, maxAgents, streaming, shuffle, messages
  pc,               \* position of runArenaRound
  responded, attempts, error, currentMessages,
  status,           \* Agent.status of every roster member
  order, cursor,    \* createSpeakerPicker closure
  clock,            \* last value returned by now()
  agent,            \* agent of the turn in progress, 0 outside a turn
  placeholderId, content,
  stream,           \* deltas of the response stream not yet delivered
  requests,         \* number of requestChatCompletion calls issued
  spoken,           \* messages finalized by turns that spoke, in turn order
  turn,             \* the log the turn in progress started from, and how it failed
  heard,            \* replies received so far that pass / do not pass the speak gate
  silenced,         \* ids of the placeholders removed because the reply was silent
  mirror,           \* Agent.context of every roster member
  emitted,          \* handler notifications made by the last step, in order
  store,            \* the caller's message list, kept up to date by its handlers
  messagesRef,      \* the array object currentMessages is bound to
  callerMessages,   \* elements of the array object the caller passed in
  ui,               \* state of the page component
  spokeThisRound,   \* onAgentSpoke calls counted by the caller
  parsing,          \* one call of parseAgentResponse: argument, position, result
  reader,           \* one call of readOpenAIChatCompletionStream
  syncing,          \* one agent's mirror under calls of syncContext
  picking           \* one speaker picker under calls of pickNext

vars == <<params, pc, responded, attempts, error, currentMessages, status, order,
          cursor, clock, agent, placeholderId, content, stream, requests, spoken, turn,
          heard, silenced, mirror, emitted, store, messagesRef, callerMessages, ui,
          spokeThisRound, parsing, reader, syncing, picking>>

\* what no step of runArenaRound touches
bench == <<parsing, reader, syncing, picking>>
aside == <<callerMessages, ui, bench>>

\* no call in progress
Idle == [pc |-> "idle"]

Roster == 1..params.n
maxResponses == Max(0, params.maxAgents)
maxAttempts == Max(maxResponses * Max(3, params.n), maxResponses)

\* --------------------------------------------------------- speaker picker
Swap(o, i, j) == [o EXCEPT ![i] = o[j], ![j] = o[i]]

\* Fisher-Yates from index i down, j = floor(random() * (i + 1)) being any of
\* the first i positions
RECURSIVE shuffleInPlace(_, _)
shuffleInPlace(o, i) ==
  IF i <= 1 THEN {o}
  ELSE UNION {shuffleInPlace(Swap(o, i, j), i - 1) : j \in 1..i}

RECURSIVE PickLoop(_, _, _, _, _)

\* a pickNext that starts every call at the head of the order
RECURSIVE PickLoopFromHead(_, _, _, _, _)
PickLoopFromHead(o, c, tries, avoidAgentId, shuffle) ==
  IF tries >= Len(o) THEN {[agent |-> o[1], order |-> o, cursor |-> c]}
  ELSE IF Len(o) = 1 \/ avoidAgentId = 0 \/ o[tries + 1] # avoidAgentId
    THEN {[agent |-> o[tries + 1], order |-> o, cursor |-> tries + 1]}
  ELSE PickLoopFromHead(o, c, tries + 1, avoidAgentId, shuffle)

\* pickNext without the final "return order[0]": no agent (0) is returned
\* once every try met the agent to avoid
RECURSIVE PickLoopNoFallback(_, _, _, _, _)
PickLoopNoFallback(o, c, tries, avoidAgentId, shuffle) ==
  IF tries >= Len(o) THEN {[agent |-> 0, order |-> o, cursor |-> c]}
  ELSE LET wrapped == c >= Len(o)
           orders == IF wrapped /\ shuffle THEN shuffleInPlace(o, Len(o)) ELSE {o}
           c0 == IF wrapped THEN 0 ELSE c
       IN  UNION {IF Len(o) = 1 \/ avoidAgentId = 0 \/ o2[c0 + 1] # avoidAgentId
                  THEN {[agent |-> o2[c0 + 1], order |-> o2, cursor |-> c0 + 1]}
                  ELSE PickLoopNoFallback(o2, c0 + 1, tries + 1, avoidAgentId, shuffle)
                  : o2 \in orders}

\* pickNext for a non-empty order: the set of possible (candidate, order, cursor)
PickLoop(o, c, tries, avoidAgentId, shuffle) ==
  IF tries >= Len(o) THEN {[agent |-> o[1], order |-> o, cursor |-> c]}
  ELSE LET wrapped == c >= Len(o)
           orders == IF wrapped /\ shuffle THEN shuffleInPlace(o, Len(o)) ELSE {o}
           c0 == IF wrapped THEN 0 ELSE c
       IN  UNION {IF Len(o) = 1 \/ avoidAgentId = 0 \/ o2[c0 + 1] # avoidAgentId
                  THEN {[agent |-> o2[c0 + 1], order |-> o2, cursor |-> c0 + 1]}
                  ELSE PickLoop(o2, c0 + 1, tries + 1, avoidAgentId, shuffle)
                  : o2 \in orders}

pickNext(avoidAgentId) == PickLoop(order, cursor, 0, avoidAgentId, params.shuffle)

\* agentId of the last message with role "agent" and a non-null agentId, else 0
RECURSIVE LastSpeaker(_)
LastSpeaker(log) ==
  IF log = <<>> THEN 0
  ELSE LET m == log[Len(log)]
       IN  IF m.role = "agent" /\ m.agentId # 0 THEN m.agentId
           ELSE LastSpeaker(SubSeq(log, 1, Len(log) - 1))

\* ------------------------------------------------------------ log mutation
pushMessage(log, message) == Append(log, message)

updateMessageContent(log, id, text) ==
  [i \in 1..Len(log) |-> IF log[i].id = id THEN [log[i] EXCEPT !.content = text] ELSE log[i]]

RECURSIVE removeMessage(_, _)
removeMessage(log, id) ==
  IF log = <<>> THEN <<>>
  ELSE IF Head(log).id = id THEN removeMessage(Tail(log), id)
  ELSE <<Head(log)>> \o removeMessage(Tail(log), id)

\* ------------------------------------------------------- agent's mirror
RECURSIVE findIndex(_, _, _)
findIndex(ctx, id, i) ==
  IF i > Len(ctx) THEN 0 ELSE IF ctx[i].id = id THEN i ELSE findIndex(ctx, id, i + 1)

resetContext(messages) == messages

\* a sync that always replaces the mirror by copies of the log
syncContextCopiesAll(ctx, messages) == resetContext(messages)

\* a patch loop that stops after its first replacement
syncContextPatchesOne(ctx, messages) ==
  LET hasSameIds == /\ Len(ctx) = Len(messages)
                    /\ \A i \in 1..Len(ctx) : ctx[i].id = messages[i].id
      differs == {i \in 1..Len(ctx) : \/ ctx[i].content # messages[i].content
                                      \/ ctx[i].time # messages[i].time}
      stale == CHOOSE i \in differs : \A j \in differs : i <= j
  IN  IF ~hasSameIds THEN resetContext(messages)
      ELSE IF differs = {} THEN ctx
      ELSE [ctx EXCEPT ![stale].content = messages[stale].content,
                       ![stale].time = messages[stale].time]

syncContext(ctx, messages) ==
  LET hasSameIds == /\ Len(ctx) = Len(messages)
                    /\ \A i \in 1..Len(ctx) : ctx[i].id = messages[i].id
  IN  IF ~hasSameIds THEN resetContext(messages)
      ELSE [i \in 1..Len(ctx) |->
              IF ctx[i].content # messages[i].content \/ ctx[i].time # messages[i].time
              THEN [ctx[i] EXCEPT !.content = messages[i].content,
                                  !.time = messages[i].time]
              ELSE ctx[i]]

observeMessageAdded(ctx, message) == Append(ctx, message)

\* an agent that does not follow content updates
observeMessageUpdatedIgnored(ctx, messageId, text) == ctx

observeMessageUpdated(ctx, messageId, text) ==
  LET index == findIndex(ctx, messageId, 1)
  IN  IF index = 0 THEN ctx ELSE [ctx EXCEPT ![index].content = text]

observeMessageRemoved(ctx, messageId) ==
  LET index == findIndex(ctx, messageId, 1)
  IN  IF index = 0 THEN ctx
      ELSE SubSeq(ctx, 1, index - 1) \o SubSeq(ctx, index + 1, Len(ctx))

\* ----------------------------------------------------------------- handlers
Event(type, a, id, text, st) ==
  [type |-> type, agentId |-> a, id |-> id, content |-> text, status |-> st]

onAgentStatus(a, st) == Event("status", a, <<>>, <<>>, st)
onMessageAdded(message) == Event("added", message.agentId, message.id, message.content, "")
onMessageUpdated(id, text) == Event("updated", 0, id, text, "")
onMessageRemoved(id) == Event("removed", 0, id, <<>>, "")
onAgentSpoke(message) == Event("spoke", message.agentId, message.id, message.content, "")

\* the caller's handlers: append, replace the content by id, delete by id
Handle(log, e) ==
  IF e.type = "added"
    THEN Append(log, [id |-> e.id, agentId |-> e.agentId, role |-> "agent", time |-> "t",
                      content |-> e.content])
  ELSE IF e.type = "updated" THEN updateMessageContent(log, e.id, e.content)
  ELSE IF e.type = "removed" THEN removeMessage(log, e.id)
  ELSE log

RECURSIVE HandleAll(_, _)
HandleAll(log, events) ==
  IF events = <<>> THEN log ELSE HandleAll(Handle(log, Head(events)), Tail(events))

\* outside a turn
NoTurn == [log |-> <<>>, outcome |-> "none", cause |-> "none"]

\* a reply asks to speak when it parses to shouldRespond = true with content
\* that is not blank
AsksToSpeak(text) ==
  LET parsed == parseAgentResponse(text)
  IN  parsed.shouldRespond /\ \E i \in 1..Len(parsed.content) : parsed.content[i] # "_"

\* now(): a clock that never runs backwards
Now == {t \in {clock, clock + 1} : t <= MaxClock}

\* Agent.parseResponse without a throwing hook
parseResponse(text) == parseAgentResponse(text)

\* -------------------------------------------------------------------- Init
\* the page after its first render: nothing loaded, no round, auto-round off
\* a message of the page's log: its role and the conversation it was made
\* in, counted in resets of the log
Shown(role, conversation) == [role |-> role, conversation |-> conversation]

UIStart ==
  LET first == [loaded |-> FALSE, isRunning |-> FALSE, autoRound |-> FALSE,
                error |-> "null", messages |-> <<Shown("system", 0)>>]
  IN  [state |-> first,       \* React state, every queued update applied
       view |-> first,        \* the state the committed render closed over
       timer |-> "none",      \* the auto-round timeout
       timerView |-> first,   \* the render whose runRound the timeout calls
       active |-> 0,          \* runArenaRound calls that have not settled
       rounds |-> <<>>,       \* their input log and the message each has added
       conversation |-> 0]    \* resets of the log so far

\* the arguments of one call of runArenaRound
ParamsInit ==
  \E n \in 0..MaxRoster, k \in -1..MaxBudget, s \in BOOLEAN, sh \in BOOLEAN :
    \E log \in InputLogs(n) :
      params = [n |-> n, maxAgents |-> k, streaming |-> s, shuffle |-> sh,
                messages |-> log]

\* before the call: agents as createAgentsFromRoster built them, with the
\* proposition as initial context
RoundStart ==
  /\ pc = "call"
  /\ responded = 0
  /\ attempts = 0
  /\ error = NoError
  /\ currentMessages = <<>>
  /\ status = [a \in 1..params.n |-> "idle"]
  /\ order = <<>>
  /\ cursor = 0
  /\ clock = 0
  /\ agent = 0
  /\ placeholderId = Null
  /\ content = <<>>
  /\ stream = <<>>
  /\ requests = 0
  /\ spoken = <<>>
  /\ turn = NoTurn
  /\ heard = [speak |-> 0, silent |-> 0]
  /\ silenced = {}
  /\ mirror = [a \in 1..params.n |-> <<SystemMsg>>]
  /\ emitted = <<>>
  /\ store = params.messages
  /\ messagesRef = "none"
  /\ callerMessages = params.messages
  /\ spokeThisRound = 0

Init ==
  /\ ParamsInit
  /\ RoundStart
  /\ ui = UIStart
  /\ parsing = Idle
  /\ picking = Idle
  /\ reader = Idle
  /\ syncing = Idle

\* ----------------------------------------------------------------- actions
\* the loop condition without the speaker budget
LoopConditionNoBudget == attempts < maxAttempts

LoopCondition == responded < maxResponses /\ attempts < maxAttempts

\* larger than any number of requests one round can issue within the bounds
RequestCap == MaxBudget * Max(3, MaxRoster) + 1

IsSpoke(e) == e.type = "spoke"

\* removals that are not reported
NotifyNoRemoved(events) ==
  LET reported == SelectSeq(events, LAMBDA e : e.type # "removed")
  IN  /\ emitted' = reported
      /\ store' = HandleAll(store, reported)
      /\ spokeThisRound' = spokeThisRound + Len(SelectSeq(events, IsSpoke))

\* a round that never calls onAgentSpoke
NotifyNoSpoke(events) ==
  LET reported == SelectSeq(events, LAMBDA e : e.type # "spoke")
  IN  /\ emitted' = reported
      /\ store' = HandleAll(store, reported)
      /\ spokeThisRound' = spokeThisRound + Len(SelectSeq(reported, IsSpoke))

\* handlers are called in order; the caller's list follows them
Notify(events) ==
  /\ emitted' = events
  /\ store' = HandleAll(store, events)
  /\ spokeThisRound' = spokeThisRound + Len(SelectSeq(events, IsSpoke))

\* a catch block that records the error and lets the loop go on
CatchNoBreak(message, cause) ==
  /\ status' = [status EXCEPT ![agent] = "idle"]
  /\ Notify(<<onAgentStatus(agent, "idle")>>)
  /\ error' = message
  /\ turn' = [turn EXCEPT !.outcome = "error", !.cause = cause]
  /\ pc' = "loop"

\* a catch block that leaves the agent's status as it was
CatchNoReset(message, cause) ==
  /\ status' = status
  /\ Notify(<<onAgentStatus(agent, "idle")>>)
  /\ error' = message
  /\ turn' = [turn EXCEPT !.outcome = "error", !.cause = cause]
  /\ pc' = "returned"

\* the catch block: reset the agent, record the message, break, return
Catch(message, cause) ==
  /\ status' = [status EXCEPT ![agent] = "idle"]
  /\ Notify(<<onAgentStatus(agent, "idle")>>)
  /\ error' = message
  /\ turn' = [turn EXCEPT !.outcome = "error", !.cause = cause]
  /\ pc' = "returned"

\* entry of runArenaRound up to the loop: copy the log, create the picker
\* binding currentMessages to the caller's own array
SpreadMessagesAlias == "caller"

\* [...params.messages]: a new array with the same elements
SpreadMessages == "copy"

Call ==
  /\ pc = "call"
  /\ currentMessages' = callerMessages
  /\ messagesRef' = SpreadMessages
  /\ mirror' = [a \in Roster |-> syncContext(mirror[a], currentMessages')]
  /\ Notify(<<>>)
  /\ cursor' = 0
  /\ order' \in (IF params.shuffle
                 THEN shuffleInPlace([i \in 1..params.n |-> i], params.n)
                 ELSE {[i \in 1..params.n |-> i]})
  /\ pc' = "loop"
  /\ UNCHANGED <<params, responded, attempts, error, status, clock, agent,
                 placeholderId, content, stream, requests, spoken, turn,
                 heard, silenced, aside>>

LoopExit ==
  /\ pc = "loop"
  /\ ~LoopCondition
  /\ pc' = "returned"
  /\ Notify(<<>>)
  /\ UNCHANGED <<params, responded, attempts, error, currentMessages, status, order,
                 cursor, clock, agent, placeholderId, content, stream, requests, spoken, turn,
                 heard, mirror, messagesRef, silenced, aside>>

\* pickNext throwing inside the try block: the error is caught and returned
TurnPickCaught ==
  /\ pc = "loop"
  /\ LoopCondition
  /\ params.n = 0
  /\ attempts' = attempts + 1
  /\ turn' = [log |-> currentMessages, outcome |-> "error", cause |-> "pick"]
  /\ Notify(<<>>)
  /\ error' = "No agents in roster."
  /\ pc' = "returned"
  /\ UNCHANGED <<params, responded, currentMessages, status, order, cursor,
                 clock, agent, placeholderId, content, stream, requests, spoken,
                 heard, mirror, messagesRef, silenced, aside>>

\* pickNext throws on an empty roster, outside the try block
TurnPickFails ==
  /\ pc = "loop"
  /\ LoopCondition
  /\ params.n = 0
  /\ attempts' = attempts + 1
  /\ turn' = [log |-> currentMessages, outcome |-> "error", cause |-> "pick"]
  /\ Notify(<<>>)
  /\ pc' = "rejected"
  /\ UNCHANGED <<params, responded, error, currentMessages, status, order, cursor,
                 clock, agent, placeholderId, content, stream, requests, spoken,
                 heard, mirror, messagesRef, silenced, aside>>

\* an ability hook throws inside buildChatCompletionRequest, outside the try block
TurnBuildThrows ==
  /\ pc = "loop"
  /\ LoopCondition
  /\ params.n > 0
  /\ requests < RequestCap
  /\ attempts' = attempts + 1
  /\ \E p \in pickNext(LastSpeaker(currentMessages)) :
       /\ agent' = p.agent
       /\ order' = p.order
       /\ cursor' = p.cursor
       /\ status' = [status EXCEPT ![p.agent] = "thinking"]
       /\ Notify(<<onAgentStatus(p.agent, "thinking")>>)
  /\ turn' = [log |-> currentMessages, outcome |-> "error", cause |-> "build"]
  /\ pc' = "rejected"
  /\ UNCHANGED <<params, responded, error, currentMessages, clock, placeholderId,
                 content, stream, requests, spoken,
                 heard, mirror, messagesRef, silenced, aside>>

\* pick, mark thinking, build the request and hand it to the transport
TurnRequest ==
  /\ pc = "loop"
  /\ LoopCondition
  /\ params.n > 0
  /\ requests < RequestCap
  /\ attempts' = attempts + 1
  /\ \E p \in pickNext(LastSpeaker(currentMessages)) :
       /\ agent' = p.agent
       /\ order' = p.order
       /\ cursor' = p.cursor
       /\ status' = [status EXCEPT ![p.agent] = "thinking"]
       /\ Notify(<<onAgentStatus(p.agent, "thinking")>>)
  /\ requests' = requests + 1
  /\ turn' = [log |-> currentMessages, outcome |-> "pending", cause |-> "none"]
  /\ placeholderId' = Null
  /\ content' = <<>>
  /\ stream' = <<>>
  /\ pc' = "request"
  /\ UNCHANGED <<params, responded, error, currentMessages, clock, spoken,
                 heard, mirror, messagesRef, silenced, aside>>

RequestThrows ==
  /\ pc = "request"
  /\ Catch("fetch failed", "transport")
  /\ UNCHANGED <<params, responded, attempts, currentMessages, order, cursor, clock,
                 agent, placeholderId, content, stream, requests, spoken,
                 heard, mirror, messagesRef, silenced, aside>>

RequestNotOk ==
  /\ pc = "request"
  /\ Catch("Request failed (500).", "status")
  /\ UNCHANGED <<params, responded, attempts, currentMessages, order, cursor, clock,
                 agent, placeholderId, content, stream, requests, spoken,
                 heard, mirror, messagesRef, silenced, aside>>

\* response.ok with streaming: push the empty placeholder, start reading
ResponseStreaming ==
  /\ pc = "request"
  /\ params.streaming
  /\ \E t \in Now, r \in Replies :
       /\ clock' = t
       /\ placeholderId' = <<agent, t>>
       /\ currentMessages' = pushMessage(currentMessages, Msg(agent, t, <<>>))
       /\ mirror' = [a \in Roster |-> observeMessageAdded(mirror[a], Msg(agent, t, <<>>))]
       /\ Notify(<<onAgentStatus(agent, "speaking"), onMessageAdded(Msg(agent, t, <<>>))>>)
       /\ stream' \in Streams(r)
  /\ messagesRef' = "copy"
  /\ status' = [status EXCEPT ![agent] = "speaking"]
  /\ pc' = "streaming"
  /\ UNCHANGED <<params, responded, attempts, error, order, cursor, agent, content,
                 requests, spoken, turn,
                 heard, silenced, aside>>

\* an accumulator that keeps only the latest delta
AccumulateLatest(text, chunk) == chunk

\* content += chunk
Accumulate(text, chunk) == text \o chunk

\* onChunk: one non-empty delta is appended and shown in the placeholder
StreamChunk ==
  /\ pc = "streaming"
  /\ stream # <<>>
  /\ content' = Accumulate(content, Head(stream))
  /\ stream' = Tail(stream)
  /\ currentMessages' = updateMessageContent(currentMessages, placeholderId, content')
  /\ messagesRef' = "copy"
  /\ Notify(<<onMessageUpdated(placeholderId, content')>>)
  /\ mirror' = [mirror EXCEPT ![agent] = observeMessageUpdated(@, placeholderId, content')]
  /\ UNCHANGED <<params, pc, responded, attempts, error, status, order, cursor, clock,
                 agent, placeholderId, requests, spoken, turn,
                 heard, silenced, aside>>

\* reader.read() rejects
StreamThrows ==
  /\ pc = "streaming"
  /\ Catch("stream failed", "body")
  /\ UNCHANGED <<params, responded, attempts, currentMessages, order, cursor, clock,
                 agent, placeholderId, content, stream, requests, spoken,
                 heard, mirror, messagesRef, silenced, aside>>

\* response.ok without streaming: wait for the body
ResponseOk ==
  /\ pc = "request"
  /\ ~params.streaming
  /\ pc' = "json"
  /\ Notify(<<>>)
  /\ UNCHANGED <<params, responded, attempts, error, currentMessages, status, order,
                 cursor, clock, agent, placeholderId, content, stream, requests, spoken, turn,
                 heard, mirror, messagesRef, silenced, aside>>

JsonThrows ==
  /\ pc = "json"
  /\ Catch("Unexpected token", "body")
  /\ UNCHANGED <<params, responded, attempts, currentMessages, order, cursor, clock,
                 agent, placeholderId, content, stream, requests, spoken,
                 heard, mirror, messagesRef, silenced, aside>>

\* response.json() resolves; a missing choices[0].message.content reads as ""
JsonOk ==
  /\ pc = "json"
  /\ content' \in Replies
  /\ pc' = "parse"
  /\ Notify(<<>>)
  /\ UNCHANGED <<params, responded, attempts, error, currentMessages, status, order,
                 cursor, clock, agent, placeholderId, stream, requests, spoken, turn,
                 heard, mirror, messagesRef, silenced, aside>>

\* a reply whose text is never complete
ArrivedNever == FALSE

\* resolving the turn while deltas are still to come
ArrivedEarly == pc = "parse" \/ pc = "streaming"

\* the text is complete: the JSON body was read, or the stream read returned
Arrived == pc = "parse" \/ (pc = "streaming" /\ stream = <<>>)

\* a transformParsedResponse hook throws inside the try block
ParseThrows ==
  /\ Arrived
  /\ Catch("hook failed", "parse")
  /\ UNCHANGED <<params, responded, attempts, currentMessages, order, cursor, clock,
                 agent, placeholderId, content, stream, requests, spoken,
                 heard, mirror, messagesRef, silenced, aside>>

SpeakGate(parsed) == parsed.shouldRespond /\ Trim(parsed.content) # <<>>

\* the turn's local variables go out of scope when the loop body ends
EndTurn ==
  /\ status' = [status EXCEPT ![agent] = "idle"]
  /\ agent' = 0
  /\ placeholderId' = Null
  /\ content' = <<>>
  /\ stream' = <<>>
  /\ turn' = NoTurn
  /\ pc' = "loop"

ResolveSpeak ==
  /\ Arrived
  /\ LET parsed == parseResponse(content)
         finalContent == Trim(parsed.content)
     IN  /\ SpeakGate(parsed)
         /\ responded' = responded + 1
         /\ IF placeholderId # Null
            THEN /\ currentMessages' =
                      updateMessageContent(currentMessages, placeholderId, finalContent)
                 /\ mirror' = [a \in Roster |->
                                observeMessageUpdated(mirror[a], placeholderId, finalContent)]
                 /\ LET index == findIndex(currentMessages', placeholderId, 1)
                    IN  Notify(<<onMessageUpdated(placeholderId, finalContent)>>
                               \o (IF index = 0 THEN <<>>
                                   ELSE <<onAgentSpoke(currentMessages'[index])>>)
                               \o <<onAgentStatus(agent, "idle")>>)
                 /\ clock' = clock
                 /\ spoken' = Append(spoken, Msg(agent, placeholderId[2], finalContent))
            ELSE \E t \in Now :
                   /\ clock' = t
                   /\ currentMessages' =
                        pushMessage(currentMessages, Msg(agent, t, finalContent))
                   /\ mirror' = [a \in Roster |->
                                  observeMessageAdded(mirror[a], Msg(agent, t, finalContent))]
                   /\ Notify(<<onAgentStatus(agent, "speaking"),
                               onMessageAdded(Msg(agent, t, finalContent)),
                               onAgentSpoke(Msg(agent, t, finalContent)),
                               onAgentStatus(agent, "idle")>>)
                   /\ spoken' = Append(spoken, Msg(agent, t, finalContent))
  /\ messagesRef' = "copy"
  /\ heard' = IF AsksToSpeak(content) THEN [heard EXCEPT !.speak = @ + 1]
              ELSE [heard EXCEPT !.silent = @ + 1]
  /\ EndTurn
  /\ UNCHANGED <<params, attempts, error, order, cursor, requests, silenced, aside>>

ResolveSilent ==
  /\ Arrived
  /\ ~SpeakGate(parseResponse(content))
  /\ IF placeholderId # Null
     THEN /\ currentMessages' = removeMessage(currentMessages, placeholderId)
          /\ messagesRef' = "copy"
          /\ mirror' = [a \in Roster |-> observeMessageRemoved(mirror[a], placeholderId)]
          /\ Notify(<<onMessageRemoved(placeholderId), onAgentStatus(agent, "idle")>>)
          /\ silenced' = silenced \cup {placeholderId}
     ELSE /\ UNCHANGED <<currentMessages, messagesRef, mirror, silenced>>
          /\ Notify(<<onAgentStatus(agent, "idle")>>)
  /\ heard' = IF AsksToSpeak(content) THEN [heard EXCEPT !.speak = @ + 1]
              ELSE [heard EXCEPT !.silent = @ + 1]
  /\ EndTurn
  /\ UNCHANGED <<params, responded, attempts, error, order, cursor, clock, requests,
                 spoken, aside>>

Next ==
  \/ Call
  \/ LoopExit
  \/ TurnPickFails
  \/ TurnBuildThrows
  \/ TurnRequest
  \/ RequestThrows
  \/ RequestNotOk
  \/ ResponseStreaming
  \/ StreamChunk
  \/ StreamThrows
  \/ ResponseOk
  \/ JsonOk
  \/ JsonThrows
  \/ ParseThrows
  \/ ResolveSpeak
  \/ ResolveSilent

Spec == Init /\ [][Next]_vars

\* every pending request, body read and stream read eventually settles
LiveSpec == Spec /\ WF_vars(Next)

\* -------------------------------------------------------------- the page
\* everything runArenaRound owns
roundVars == <<params, pc, responded, attempts, error, currentMessages, status, order,
               cursor, clock, agent, placeholderId, content, stream, requests, spoken,
               turn, heard, silenced, mirror, emitted, store, messagesRef, callerMessages,
               spokeThisRound>>

\* runRound as the render v closed over it, applied to the React state st:
\* the early returns, then setError(null), setIsRunning(true) and the call
runRound(v, st) ==
  IF ~v.loaded THEN [state |-> [st EXCEPT !.error = "Missing roster."], starts |-> 0]
  ELSE IF v.isRunning THEN [state |-> st, starts |-> 0]
  ELSE [state |-> [st EXCEPT !.error = "null", !.isRunning = TRUE], starts |-> 1]

\* a commit: the render closes over the state; the auto-round effect runs
\* again when one of its dependencies changed, clearing its timeout first
Commit(u, st) ==
  LET changed == \/ u.view.autoRound # st.autoRound
                 \/ u.view.isRunning # st.isRunning
                 \/ u.view.loaded # st.loaded
                 \/ u.view.messages # st.messages
      arm == st.autoRound /\ ~st.isRunning
  IN  [u EXCEPT !.state = st,
                !.view = st,
                !.timer = IF changed THEN (IF arm THEN "armed" ELSE "none") ELSE @,
                !.timerView = IF changed /\ arm THEN st ELSE @]

\* the roster, providers and model arrive
Bootstrap ==
  /\ ~ui.state.loaded
  /\ ui' = [ui EXCEPT !.state.loaded = TRUE]
  /\ UNCHANGED <<roundVars, bench>>

\* React renders the updates queued outside an event handler
Render ==
  /\ ui.view # ui.state
  /\ ui' = Commit(ui, ui.state)
  /\ UNCHANGED <<roundVars, bench>>

\* runArenaRound is called with the messages of the render: the round's log
Started(u, v, starts) ==
  [u EXCEPT !.active = @ + starts,
            !.rounds = IF starts = 1 THEN Append(@, [log |-> v.messages, added |-> <<>>])
                       ELSE @]

\* a click on Start or Next Round; React renders before the next event
ClickStart ==
  /\ ~ui.view.isRunning
  /\ ui.active < MaxActive
  /\ Len(ui.view.messages) <= MaxShown
  /\ LET r == runRound(ui.view, ui.state)
     IN  ui' = Commit(Started(ui, ui.view, r.starts), r.state)
  /\ UNCHANGED <<roundVars, bench>>

ClickAuto ==
  /\ ui' = Commit(ui, [ui.state EXCEPT !.autoRound = ~@])
  /\ UNCHANGED <<roundVars, bench>>

\* the timeout calls the runRound of the render that armed it
TimerFires ==
  /\ ui.timer = "armed"
  /\ ui.active < MaxActive
  /\ Len(ui.timerView.messages) <= MaxShown
  /\ LET r == runRound(ui.timerView, ui.state)
     IN  ui' = [Started(ui, ui.timerView, r.starts) EXCEPT !.timer = "none",
                                                        !.state = r.state]
  /\ UNCHANGED <<roundVars, bench>>

\* the sequence without its i-th element
Without(seq, i) == SubSeq(seq, 1, i - 1) \o SubSeq(seq, i + 1, Len(seq))

\* result.messages: the round's input log followed by what it added
Returned(round) == round.log \o round.added

\* a runArenaRound call resolves: setError or setRound,
\* setMessages(result.messages), setIsRunning(false)
RoundSettles ==
  /\ ui.active > 0
  /\ \E i \in 1..Len(ui.rounds), e \in {"null", "Request failed (500)."} :
       ui' = [ui EXCEPT !.active = @ - 1,
                        !.rounds = Without(@, i),
                        !.state.isRunning = FALSE,
                        !.state.messages = Returned(ui.rounds[i]),
                        !.state.error = IF e = "null" THEN @ ELSE e]
  /\ UNCHANGED <<roundVars, bench>>

\* a round in progress adds a message: onMessageAdded appends it to the
\* page's log as it is now
RoundAdds ==
  /\ \E i \in 1..Len(ui.rounds) :
       /\ ui.rounds[i].added = <<>>
       /\ ui' = [ui EXCEPT
                   !.rounds[i].added = <<Shown("agent", ui.conversation)>>,
                   !.state.messages = Append(@, Shown("agent", ui.conversation))]
  /\ UNCHANGED <<roundVars, bench>>

\* resetProposition: a click on Launch Debate
ClickLaunch ==
  /\ ui.conversation < MaxResets
  /\ ui' = Commit([ui EXCEPT !.conversation = @ + 1],
                  [ui.state EXCEPT !.messages = <<Shown("system", ui.conversation + 1)>>,
                                   !.error = "null"])
  /\ UNCHANGED <<roundVars, bench>>

\* a click on Clear: setMessages([])
ClickClear ==
  /\ ui.conversation < MaxResets
  /\ ui' = Commit([ui EXCEPT !.conversation = @ + 1],
                  [ui.state EXCEPT !.messages = <<>>])
  /\ UNCHANGED <<roundVars, bench>>

UINext ==
  \/ Bootstrap
  \/ Render
  \/ ClickStart
  \/ ClickAuto
  \/ TimerFires
  \/ RoundSettles
  \/ RoundAdds
  \/ ClickLaunch
  \/ ClickClear

UIInit ==
  /\ params = [n |-> 1, maxAgents |-> 1, streaming |-> TRUE, shuffle |-> FALSE,
               messages |-> <<SystemMsg>>]
  /\ RoundStart
  /\ ui = UIStart
  /\ parsing = Idle
  /\ picking = Idle
  /\ reader = Idle
  /\ syncing = Idle

UISpec == UIInit /\ [][UINext]_vars

\* ----------------------------------------------- parseAgentResponse alone
\* JSON values: true, false, null, numbers, and strings that are empty,
\* plain, padded with whitespace, or carry a fence marker
JsonValues ==
  {<<"t">>, <<"f">>, <<"n">>, <<"1">>, <<"0">>, <<"Q", "Q">>, <<"Q", "a", "Q">>,
   <<"Q", "_", "b", "_", "Q">>, <<"Q", "a", "F", "b", "Q">>}

Object(members) == <<"{">> \o members \o <<"}">>

JsonObjects ==
  {Object(<<>>), Object(<<"_">>)}
    \cup {Object(<<k>> \o v) : k \in {"S", "C", "X"}, v \in JsonValues}
    \cup {Object(<<"S">> \o v \o <<",", "C">> \o w) : v \in JsonValues, w \in JsonValues}
    \cup {Object(<<"C">> \o w \o <<",", "S">> \o v) : v \in JsonValues, w \in JsonValues}
    \cup {Object(<<"S", "f", ",", "S">> \o v \o <<",", "X", "1">>) : v \in JsonValues}

\* texts that JSON.parse rejects
NotJson ==
  {<<>>, <<"_">>, <<"a", "_", "b">>, <<"a">>, <<"{", "S", "t">>, <<"{", "S", "}">>,
   <<"{", "C", "Q", "a", "}">>, <<"{", "S", "t", ",", "}">>, <<"S", "t">>,
   <<"a", "{", "S", "t", "}">>, <<"{", "S", "t", "}", "a">>, <<"t", "t">>, <<"}">>}

\* as it is, in a json fence, in a bare fence, or between whitespace
Wrappings(text) ==
  {text, <<"J", "_">> \o text \o <<"_", "F">>, <<"F">> \o text \o <<"F">>,
   <<"_">> \o text \o <<"_", "_">>}

ParserInputs == UNION {Wrappings(text) : text \in JsonObjects \cup JsonValues \cup NotJson}

ParseCall ==
  /\ parsing.pc = "call"
  /\ parsing' = [pc |-> "returned", content |-> parsing.content,
                 result |-> parseAgentResponse(parsing.content)]
  /\ UNCHANGED <<roundVars, ui, reader, syncing, picking>>

ParserInit ==
  /\ params = [n |-> 1, maxAgents |-> 1, streaming |-> TRUE, shuffle |-> FALSE,
               messages |-> <<SystemMsg>>]
  /\ RoundStart
  /\ ui = UIStart
  /\ parsing \in {[pc |-> "call", content |-> text] : text \in ParserInputs}
  /\ picking = Idle
  /\ reader = Idle
  /\ syncing = Idle

ParserNext == ParseCall

ParserSpec == ParserInit /\ [][ParserNext]_vars

\* ----------------------------------- readOpenAIChatCompletionStream alone
\* A response body is a sequence of lexemes: "N" a newline, "D" the text
\* data:, "_" whitespace, "#" other text, "Z" the payload [DONE], and one
\* lexeme per JSON payload: "a" "b" a chunk object whose delta content is
\* that letter, "e" a chunk object without delta content, "x" text that
\* JSON.parse rejects.

\* buffer.split("\n")
RECURSIVE Split(_, _)
Split(buffer, piece) ==
  IF buffer = <<>> THEN <<piece>>
  ELSE IF Head(buffer) = "N" THEN <<piece>> \o Split(Tail(buffer), <<>>)
  ELSE Split(Tail(buffer), Append(piece, Head(buffer)))

\* the body of the for loop with a decode error that is not caught
ProcessLineNoCatch(line) ==
  LET trimmed == Trim(line)
      payload == Trim(Tail(trimmed))
  IN  IF trimmed = <<>> \/ Head(trimmed) # "D" THEN [kind |-> "continue"]
      ELSE IF payload = <<"Z">> THEN [kind |-> "return"]
      ELSE IF Len(payload) = 1 /\ payload[1] \in {"a", "b"}
        THEN [kind |-> "chunk", delta |-> payload]
      ELSE IF payload = <<"e">> THEN [kind |-> "continue"]
      ELSE [kind |-> "throw"]

\* the body of the for loop that goes on reading after [DONE]
ProcessLineIgnoresDone(line) ==
  LET trimmed == Trim(line)
      payload == Trim(Tail(trimmed))
  IN  IF trimmed = <<>> \/ Head(trimmed) # "D" THEN [kind |-> "continue"]
      ELSE IF Len(payload) = 1 /\ payload[1] \in {"a", "b"}
        THEN [kind |-> "chunk", delta |-> payload]
      ELSE [kind |-> "continue"]

\* the body of the for loop: what one line does
ProcessLine(line) ==
  LET trimmed == Trim(line)
      payload == Trim(Tail(trimmed))
  IN  IF trimmed = <<>> \/ Head(trimmed) # "D" THEN [kind |-> "continue"]
      ELSE IF payload = <<"Z">> THEN [kind |-> "return"]
      ELSE IF Len(payload) = 1 /\ payload[1] \in {"a", "b"}
        THEN [kind |-> "chunk", delta |-> payload]
      ELSE [kind |-> "continue"]

\* the for loop over the complete lines of one read
RECURSIVE ProcessLines(_, _)
ProcessLines(lines, deltas) ==
  IF lines = <<>> THEN [exit |-> "next", deltas |-> deltas]
  ELSE LET step == ProcessLine(Head(lines))
       IN  IF step.kind = "return" THEN [exit |-> "return", deltas |-> deltas]
           ELSE IF step.kind = "throw" THEN [exit |-> "throw", deltas |-> deltas]
           ELSE IF step.kind = "chunk"
             THEN ProcessLines(Tail(lines), Append(deltas, step.delta))
           ELSE ProcessLines(Tail(lines), deltas)

RECURSIVE Concat(_)
Concat(texts) == IF texts = <<>> THEN <<>> ELSE Head(texts) \o Concat(Tail(texts))

\* the lines a server can send
SseLines ==
  {<<"D", "a">>, <<"D", "_", "b">>, <<"D", "e">>, <<"D", "x">>, <<"D", "Z">>, <<"#">>}

RECURSIVE LineSeqs(_)
LineSeqs(n) ==
  IF n = 0 THEN {<<>>}
  ELSE LineSeqs(n - 1) \cup {Append(ls, l) : ls \in LineSeqs(n - 1), l \in SseLines}

\* every line followed by a newline
RECURSIVE Bytes(_)
Bytes(lines) ==
  IF lines = <<>> THEN <<>> ELSE Head(lines) \o <<"N">> \o Bytes(Tail(lines))

\* the ways reader.read() can cut a body into at most n non-empty chunks
RECURSIVE Chunkings(_, _)
Chunkings(bytes, n) ==
  IF bytes = <<>> THEN {<<>>}
  ELSE IF n <= 1 THEN {<<bytes>>}
  ELSE {<<bytes>>} \cup
       UNION {{<<SubSeq(bytes, 1, i)>> \o rest :
                 rest \in Chunkings(SubSeq(bytes, i + 1, Len(bytes)), n - 1)}
              : i \in 1..(Len(bytes) - 1)}

\* a reader that forgets the unfinished line between two reads
popDropped(pieces) == <<>>

\* buffer = lines.pop() ?? ""
pop(pieces) == pieces[Len(pieces)]

\* reader.read() resolves with a chunk: decode, split, keep the last piece
\* as the buffer, run the complete lines; onChunk appends each delta
ReadChunk ==
  /\ reader.pc = "reading"
  /\ reader.chunks # <<>>
  /\ LET pieces == Split(reader.buffer \o Head(reader.chunks), <<>>)
         ran == ProcessLines(SubSeq(pieces, 1, Len(pieces) - 1), <<>>)
     IN  reader' = [reader EXCEPT
                      !.pc = IF ran.exit = "return" THEN "returned"
                             ELSE IF ran.exit = "throw" THEN "threw"
                             ELSE "reading",
                      !.chunks = Tail(@),
                      !.read = Append(@, Head(reader.chunks)),
                      !.buffer = pop(pieces),
                      !.deltas = @ \o ran.deltas,
                      !.content = @ \o Concat(ran.deltas)]
  /\ UNCHANGED <<roundVars, ui, parsing, syncing, picking>>

\* reader.read() resolves with done
ReadDone ==
  /\ reader.pc = "reading"
  /\ reader.chunks = <<>>
  /\ reader' = [reader EXCEPT !.pc = "returned"]
  /\ UNCHANGED <<roundVars, ui, parsing, syncing, picking>>

ReaderInit ==
  /\ params = [n |-> 1, maxAgents |-> 1, streaming |-> TRUE, shuffle |-> FALSE,
               messages |-> <<SystemMsg>>]
  /\ RoundStart
  /\ ui = UIStart
  /\ parsing = Idle
  /\ picking = Idle
  /\ syncing = Idle
  /\ \E lines \in LineSeqs(MaxLines) :
       \E chunks \in Chunkings(Bytes(lines), MaxChunks) :
         reader = [pc |-> "reading", lines |-> lines, chunks |-> chunks, read |-> <<>>,
                   buffer |-> <<>>, deltas |-> <<>>, content |-> <<>>]

ReaderNext == ReadChunk \/ ReadDone

ReaderSpec == ReaderInit /\ [][ReaderNext]_vars

\* ------------------------------------------------- Agent.syncContext alone
\* messages a mirror or a log can hold; one of them also exists with another
\* author, so that a patched entry differs from a copy of the log's entry
SyncMessages ==
  {[id |-> <<i, 0>>, agentId |-> 1, role |-> "agent", content |-> <<c>>, time |-> t] :
     i \in 1..2, c \in {"a", "b"}, t \in {"t", "u"}}
  \cup {[id |-> <<1, 0>>, agentId |-> 2, role |-> "agent", content |-> <<"a">>, time |-> "t"]}

RECURSIVE SyncLogs(_)
SyncLogs(n) ==
  IF n = 0 THEN {<<>>}
  ELSE SyncLogs(n - 1) \cup {Append(l, m) : l \in SyncLogs(n - 1), m \in SyncMessages}

\* agent.syncContext(messages)
SyncOnce ==
  /\ syncing.pc = "call"
  /\ syncing' = [syncing EXCEPT !.pc = "synced",
                                !.first = syncContext(syncing.context, syncing.messages)]
  /\ UNCHANGED <<roundVars, ui, parsing, reader, picking>>

\* agent.syncContext(messages) once more, with the same log
SyncAgain ==
  /\ syncing.pc = "synced"
  /\ syncing' = [syncing EXCEPT !.pc = "resynced",
                                !.second = syncContext(syncing.first, syncing.messages)]
  /\ UNCHANGED <<roundVars, ui, parsing, reader, picking>>

SyncInit ==
  /\ params = [n |-> 1, maxAgents |-> 1, streaming |-> TRUE, shuffle |-> FALSE,
               messages |-> <<SystemMsg>>]
  /\ RoundStart
  /\ ui = UIStart
  /\ parsing = Idle
  /\ picking = Idle
  /\ reader = Idle
  /\ \E ctx \in SyncLogs(MaxLog), messages \in SyncLogs(MaxLog) :
       syncing = [pc |-> "call", context |-> ctx, messages |-> messages,
                  first |-> <<>>, second |-> <<>>]

SyncNext == SyncOnce \/ SyncAgain

SyncSpec == SyncInit /\ [][SyncNext]_vars

\* --------------------------------------- Agent.observeMessage* alone
\* the mirrors an agent can hold for a log: the log itself, or the log
\* without its latest message
Mirrors(log) ==
  {log} \cup (IF log = <<>> THEN {} ELSE {SubSeq(log, 1, Len(log) - 1)})

\* ids an update or a removal can name; <<3, 0>> is in no log
ObservedIds == {<<i, 0>> : i \in 1..3}

Observed(op, id, log, ctx) ==
  [pc |-> "observed", op |-> op, id |-> id,
   before |-> [log |-> syncing.log, context |-> syncing.context],
   log |-> log, context |-> ctx]

\* pushMessage(message) and agent.observeMessageAdded(message)
ObservePush ==
  /\ syncing.pc = "mirrored"
  /\ \E message \in SyncMessages :
       syncing' = Observed("added", message.id,
                           pushMessage(syncing.log, message),
                           observeMessageAdded(syncing.context, message))
  /\ UNCHANGED <<roundVars, ui, parsing, reader, picking>>

\* updateMessageContent(id, content) and agent.observeMessageUpdated(id, content)
ObserveUpdate ==
  /\ syncing.pc = "mirrored"
  /\ \E id \in ObservedIds, text \in {<<"a">>, <<"b">>} :
       syncing' = Observed("updated", id,
                           updateMessageContent(syncing.log, id, text),
                           observeMessageUpdated(syncing.context, id, text))
  /\ UNCHANGED <<roundVars, ui, parsing, reader, picking>>

\* removeMessage(id) and agent.observeMessageRemoved(id)
ObserveRemove ==
  /\ syncing.pc = "mirrored"
  /\ \E id \in ObservedIds :
       syncing' = Observed("removed", id,
                           removeMessage(syncing.log, id),
                           observeMessageRemoved(syncing.context, id))
  /\ UNCHANGED <<roundVars, ui, parsing, reader, picking>>

ObserveInit ==
  /\ params = [n |-> 1, maxAgents |-> 1, streaming |-> TRUE, shuffle |-> FALSE,
               messages |-> <<SystemMsg>>]
  /\ RoundStart
  /\ ui = UIStart
  /\ parsing = Idle
  /\ picking = Idle
  /\ reader = Idle
  /\ \E log \in SyncLogs(MaxLog) :
       \E ctx \in Mirrors(log) :
         syncing = [pc |-> "mirrored", log |-> log, context |-> ctx]

ObserveNext == ObservePush \/ ObserveUpdate \/ ObserveRemove

ObserveSpec == ObserveInit /\ [][ObserveNext]_vars

\* ------------------------------- Agent.buildChatCompletionRequest alone
\* the roster the agent was constructed with: two agents, named A and B
nameByAgentId == [i \in 1..2 |-> IF i = 1 THEN "A" ELSE "B"]

\* ArenaPrompts: labels and the user template; "V" is the token {{chat_log}}
prompts ==
  [systemName |-> "S", unknownAgentName |-> "U", userChatLogTemplate |-> <<"h", "N", "V">>]

\* buildAgentSystemPrompt(profile, prompts), computed by the constructor
buildAgentSystemPrompt(a) == <<"P", nameByAgentId[a]>>

\* renderPromptTemplate: every {{chat_log}} token is replaced by the text
RECURSIVE renderPromptTemplate(_, _)
renderPromptTemplate(template, chat_log) ==
  IF template = <<>> THEN <<>>
  ELSE (IF Head(template) = "V" THEN chat_log ELSE <<Head(template)>>)
       \o renderPromptTemplate(Tail(template), chat_log)

\* lines.join("\n")
RECURSIVE Join(_)
Join(lines) ==
  IF lines = <<>> THEN <<>>
  ELSE IF Len(lines) = 1 THEN lines[1]
  ELSE lines[1] \o <<"N">> \o Join(Tail(lines))

\* a request built from the orchestrator's log instead of the mirror
thisContextLiveLog(self) == self.log

\* this.context
thisContext(self) == self.context

\* buildChatLog: `${name}: ${message.content}` per mirrored message
buildChatLog(self) ==
  Join([i \in 1..Len(thisContext(self)) |->
          LET message == thisContext(self)[i]
              name == IF message.agentId = 0 THEN prompts.systemName
                      ELSE IF message.agentId \in DOMAIN nameByAgentId
                        THEN nameByAgentId[message.agentId]
                      ELSE prompts.unknownAgentName
          IN  <<name, ":", "_">> \o message.content])

buildChatCompletionRequest(self) ==
  [stream |-> TRUE,
   messages |-> <<[role |-> "system", content |-> self.systemPrompt],
                  [role |-> "user",
                   content |-> renderPromptTemplate(prompts.userChatLogTemplate,
                                                    buildChatLog(self))]>>]

\* messages of the proposition, of the two agents and of an agent that is
\* not in the roster
AgentMessages ==
  {SystemMsg, Msg(1, 0, <<"a">>), Msg(2, 0, <<"b">>), Msg(3, 0, <<"a">>)}

RECURSIVE AgentLogs(_)
AgentLogs(n) ==
  IF n = 0 THEN {<<>>}
  ELSE AgentLogs(n - 1) \cup {Append(l, m) : l \in AgentLogs(n - 1), m \in AgentMessages}

NoRequest == [stream |-> FALSE, messages |-> <<>>]

\* the orchestrator's log changes; the agent is not told. The request built
\* before has been sent and is gone.
LogChanges ==
  /\ syncing.pc \in {"agent", "built"}
  /\ \E log \in AgentLogs(MaxLog) :
       /\ log # syncing.log
       /\ syncing' = [syncing EXCEPT !.pc = "agent", !.log = log, !.request = NoRequest]
  /\ UNCHANGED <<roundVars, ui, parsing, reader, picking>>

\* agent.syncContext(currentMessages) at the start of a round
AgentSyncs ==
  /\ syncing.pc \in {"agent", "built"}
  /\ syncing.context # syncing.log
  /\ syncing' = [syncing EXCEPT !.pc = "agent", !.request = NoRequest,
                                !.context = syncContext(syncing.context, syncing.log)]
  /\ UNCHANGED <<roundVars, ui, parsing, reader, picking>>

\* agent.buildChatCompletionRequest(options)
AgentBuilds ==
  /\ syncing.pc = "agent"
  /\ syncing' = [syncing EXCEPT !.pc = "built",
                                !.request = buildChatCompletionRequest(syncing)]
  /\ UNCHANGED <<roundVars, ui, parsing, reader, picking>>

\* new Agent({profile, roster, prompts, initialContext})
AgentInit ==
  /\ params = [n |-> 1, maxAgents |-> 1, streaming |-> TRUE, shuffle |-> FALSE,
               messages |-> <<SystemMsg>>]
  /\ RoundStart
  /\ ui = UIStart
  /\ parsing = Idle
  /\ picking = Idle
  /\ reader = Idle
  /\ \E a \in 1..2, initialContext \in AgentLogs(MaxLog) :
       syncing = [pc |-> "agent", id |-> a, systemPrompt |-> buildAgentSystemPrompt(a),
                  log |-> initialContext, context |-> resetContext(initialContext),
                  request |-> NoRequest]

AgentNext == LogChanges \/ AgentSyncs \/ AgentBuilds

AgentSpec == AgentInit /\ [][AgentNext]_vars

\* ------------------------------------ createSpeakerPicker without shuffle
\* the last n polls: who was picked and who was to be avoided
Recent(polls, n) ==
  IF Len(polls) <= n THEN polls ELSE SubSeq(polls, Len(polls) - n + 1, Len(polls))

\* one attempt of the loop: speakerPicker.pickNext(lastSpeakerId), where the
\* last speaker is nobody or any agent of the roster
Poll ==
  /\ picking.pc = "picking"
  /\ \E lastSpeakerId \in 0..picking.n :
       \E p \in PickLoop(picking.order, picking.cursor, 0, lastSpeakerId, FALSE) :
         picking' = [picking EXCEPT
                       !.order = p.order,
                       !.cursor = p.cursor,
                       !.polls = Recent(Append(@, [agent |-> p.agent,
                                                   avoid |-> lastSpeakerId]),
                                        picking.n)]
  /\ UNCHANGED <<roundVars, ui, parsing, reader, syncing>>

\* createSpeakerPicker({agents, shuffle: false})
PickerInit ==
  /\ params = [n |-> 1, maxAgents |-> 1, streaming |-> TRUE, shuffle |-> FALSE,
               messages |-> <<SystemMsg>>]
  /\ RoundStart
  /\ ui = UIStart
  /\ parsing = Idle
  /\ reader = Idle
  /\ syncing = Idle
  /\ \E n \in 1..MaxRoster :
       picking = [pc |-> "picking", n |-> n, order |-> [i \in 1..n |-> i],
                  cursor |-> 0, polls |-> <<>>]

PickerNext == Poll

PickerSpec == PickerInit /\ [][PickerNext]_vars

\* ------------------------------------------------------------------ claims
InTurn == pc \in {"request", "streaming", "json", "parse"}
Settled == pc \in {"returned", "rejected"}
Failed == error # NoError
NewMessages == SubSeq(currentMessages, Len(params.messages) + 1, Len(currentMessages))
InputPrefix == SubSeq(currentMessages, 1, Len(params.messages))

\* C1: responded never exceeds max(0, maxAgents), and a transport request is
\* issued only while responded is still below maxAgents
C1_SpeakerBudget ==
  /\ responded <= Max(0, params.maxAgents)
  /\ pc = "request" => responded < params.maxAgents

C1_Witness == pc = "returned" /\ responded = params.maxAgents /\ responded = MaxBudget

\* C2: a round issues one transport request per attempt and at most
\* max(maxAgents * max(3, rosterSize), maxAgents) of them; when no reply asks
\* to speak and nothing fails, it returns after exactly that many attempts
\* with responded = 0, no error and the input log
C2_AttemptCap ==
  /\ requests <= Max(Max(0, params.maxAgents) * Max(3, params.n), Max(0, params.maxAgents))
  /\ pc # "rejected" => requests = attempts
  /\ (pc = "returned" /\ ~Failed /\ heard.speak = 0)
       => /\ attempts = Max(Max(0, params.maxAgents) * Max(3, params.n),
                            Max(0, params.maxAgents))
          /\ responded = 0
          /\ currentMessages = params.messages

\* C3: with a non-empty roster, when every reply asks to speak and nothing
\* fails, the round takes exactly k = max(0, maxAgents) attempts and returns
\* responded = k, no error, and the input log followed by k agent messages
\* whose agentId is the agent picked for that turn
C3_AllSpeak ==
  (pc = "returned" /\ ~Failed /\ heard.silent = 0 /\ params.n >= 1)
    => /\ attempts = Max(0, params.maxAgents)
       /\ responded = Max(0, params.maxAgents)
       /\ Len(spoken) = Max(0, params.maxAgents)
       /\ Len(currentMessages) = Len(params.messages) + Max(0, params.maxAgents)
       /\ InputPrefix = params.messages
       /\ \A i \in 1..Len(NewMessages) :
            /\ NewMessages[i].role = "agent"
            /\ i <= Len(spoken) => NewMessages[i].agentId = spoken[i].agentId

C5_TurnEffect ==
  [][(Arrived /\ pc' = "loop")
       => LET speaks == AsksToSpeak(content)
              t == IF params.streaming THEN placeholderId[2] ELSE clock'
              final == Trim(parseAgentResponse(content).content)
          IN  /\ responded' = responded + (IF speaks THEN 1 ELSE 0)
              /\ currentMessages' = IF speaks THEN Append(turn.log, Msg(agent, t, final))
                                    ELSE turn.log]_vars

\* C6: when a turn fails on a non-success status, a throwing transport or a
\* throwing body read, the result carries an error, the failing agent is
\* idle, and the returned log is the log from before the failing turn
C6_FailedTurnLog ==
  (pc = "returned" /\ turn.cause \in {"status", "transport", "body"})
    => /\ Failed
       /\ status[agent] = "idle"
       /\ currentMessages = turn.log

\* C7: when a round aborts on an error, every message finalized by an earlier
\* turn is still in the returned log with its final content, and responded
\* is the number of turns that spoke
C7_NoRollback ==
  (pc = "returned" /\ Failed)
    => /\ responded = Len(spoken)
       /\ \A i \in 1..Len(spoken) :
            \E j \in 1..Len(currentMessages) : currentMessages[j] = spoken[i]

\* C8: an exception raised while building the request, calling the
\* transport, reading the body or parsing the reply leaves the picked agent
\* idle and makes the round return a result with an error
C8_ExceptionCaught ==
  (turn.outcome = "error" /\ turn.cause \in {"build", "transport", "status", "body", "parse"})
    => /\ status[agent] = "idle"
       /\ pc = "returned"
       /\ Failed

\* C9: once a transport request has thrown or returned a non-success status,
\* the round issues no further transport request
C9_NoRetry ==
  [][(error \in {"fetch failed", "Request failed (500)."}) => (requests' = requests)]_vars

C9_Witness ==
  /\ pc = "returned"
  /\ error = "Request failed (500)."
  /\ responded = 1
  /\ LoopCondition

\* C10: only the agent of the turn in progress is ever not idle, and every
\* agent is idle when the round has returned
C10_StatusDiscipline ==
  /\ \A a \in Roster : status[a] # "idle" => (a = agent /\ (InTurn \/ pc = "rejected"))
  /\ pc = "returned" => \A a \in Roster : status[a] = "idle"

C10_Witness ==
  /\ pc = "returned"
  /\ Failed
  /\ placeholderId # Null
  /\ params.n >= 2

\* C11: when a streaming turn ends in silence, no message with the
\* placeholder's id is in the log after the turn, onMessageRemoved is notified
\* for that id, and no message with that id is in the log the round returns
C11_PlaceholderRemoved ==
  /\ [][(pc = "streaming" /\ pc' = "loop" /\ ~AsksToSpeak(content))
         => /\ findIndex(currentMessages', placeholderId, 1) = 0
            /\ \E i \in 1..Len(emitted') : emitted'[i] = onMessageRemoved(placeholderId)]_vars
  /\ [](pc = "returned" => \A id \in silenced : findIndex(currentMessages, id, 1) = 0)

\* C12: with more than one agent, from every picker state a round reaches,
\* pickNext(avoidAgentId) never returns the agent whose id is avoidAgentId
C12_NeverAvoided ==
  (pc = "loop" /\ params.n > 1)
    => \A avoidAgentId \in Roster :
         \A p \in pickNext(avoidAgentId) : p.agent # avoidAgentId

\* C13: with a non-empty roster, from every picker state a round reaches and
\* for every avoidAgentId, null included, pickNext returns a roster member
\* and leaves the order a permutation of the roster and the cursor within
\* it; a single agent is returned even when it is the one to avoid
C13_AlwaysPicks ==
  (pc = "loop" /\ params.n >= 1)
    => \A avoidAgentId \in 0..params.n :
         /\ pickNext(avoidAgentId) # {}
         /\ \A p \in pickNext(avoidAgentId) :
              /\ p.agent \in Roster
              /\ {p.order[i] : i \in 1..Len(p.order)} = Roster
              /\ p.cursor \in 1..params.n
              /\ params.n = 1 => p.agent = 1

C13_Witness ==
  /\ pc = "request"
  /\ params.n = 1
  /\ agent = 1
  /\ LastSpeaker(turn.log) = 1

\* C14: a round started with an empty roster ends in failure, whatever
\* maxAgents is, without a transport request and without a new message
C14_EmptyRosterFails ==
  (params.n = 0 /\ Settled)
    => /\ pc = "rejected"
       /\ requests = 0
       /\ currentMessages = params.messages

\* C14, amended: with an empty roster no transport request is issued and no
\* message is added or reported; the round fails, by rejecting, exactly when
\* maxAgents >= 1, and otherwise returns the input log with responded = 0
\* and no error
C14_EmptyRosterAmended ==
  /\ params.n = 0 => (requests = 0 /\ emitted = <<>> /\ store = params.messages)
  /\ (params.n = 0 /\ Settled)
       => /\ currentMessages = params.messages
          /\ pc = "rejected" <=> params.maxAgents >= 1
          /\ pc = "rejected" => (turn.cause = "pick" /\ attempts = 1)
          /\ pc = "returned" => (responded = 0 /\ ~Failed /\ attempts = 0)

C14_Witness ==
  /\ params.n = 0
  /\ pc = "rejected"
  /\ params.maxAgents = MaxBudget
  /\ Len(params.messages) = 1

\* C15: whenever an agent's request is built, that agent's mirror equals the
\* orchestrator's log: same length, ids and contents, position by position
C15_MirrorInSync ==
  (agent # 0 /\ (pc = "request" \/ (pc = "rejected" /\ turn.cause = "build")))
    => mirror[agent] = currentMessages

\* C16: a transport request is issued only between turns, when nothing of
\* an earlier reply is left to read, and a turn ends only after its reply
\* has been read to the end
C16_OneInFlight ==
  [][/\ (requests' # requests)
          => /\ requests' = requests + 1
             /\ pc = "loop"
             /\ agent = 0
             /\ stream = <<>>
             /\ turn = NoTurn
     /\ (InTurn /\ pc' = "loop")
          => (stream = <<>> /\ pc \in {"parse", "streaming"})]_vars

C16_Witness ==
  /\ pc = "request"
  /\ requests = 2
  /\ params.streaming
  /\ Len(currentMessages) > Len(params.messages)

\* C17: in the page at most one runArenaRound call is in progress
C17_OneRound == ui.active <= 1

\* C18: the caller's array keeps its elements, and the array returned is not
\* the caller's array, also when the round takes no turn
C18_CallerArrayKept ==
  /\ callerMessages = params.messages
  /\ pc # "call" => messagesRef # "caller"

C18_Witness ==
  /\ pc = "returned"
  /\ attempts = 0
  /\ messagesRef = "copy"
  /\ currentMessages = callerMessages

\* C19: the list a caller keeps by applying the notifications in order to a
\* copy of the input log equals the orchestrator's log after every step,
\* and so equals the returned log
C19_StoreFollows == pc # "call" => store = currentMessages

C19_Witness ==
  /\ pc = "returned"
  /\ silenced # {}
  /\ responded >= 1
  /\ store = currentMessages
  /\ Len(store) > Len(params.messages)

\* C20: a turn never removes, reorders or changes a message that was in the
\* log before it: a longer log extends the shorter one at the tail, the log
\* at the end of a turn extends the log the turn started from, and the
\* input log stays a prefix of the log
C20_PriorMessagesKept ==
  /\ [][(pc # "call" /\ Len(currentMessages') > Len(currentMessages))
          => SubSeq(currentMessages', 1, Len(currentMessages)) = currentMessages]_vars
  /\ [][(InTurn /\ pc' \in {"loop", "returned"})
          => /\ Len(currentMessages') >= Len(turn.log)
             /\ SubSeq(currentMessages', 1, Len(turn.log)) = turn.log]_vars
  /\ [](pc # "call" => (Len(currentMessages) >= Len(params.messages)
                         /\ InputPrefix = params.messages))

\* the argument of a returned parseAgentResponse call, fence markers and
\* surrounding whitespace removed
Cleaned == stripJsonCodeFence(parsing.content)

NoQuote(text) == \A i \in 1..Len(text) : text[i] # "Q"

\* the text is {"should_respond":true,"content":"x"}, in either member order
IsSpeakObject(text, x) ==
  /\ NoQuote(x)
  /\ \/ text = <<"{", "S", "t", ",", "C", "Q">> \o x \o <<"Q", "}">>
     \/ text = <<"{", "C", "Q">> \o x \o <<"Q", ",", "S", "t", "}">>

\* the strings a speak object of this length can carry
Inner(text) ==
  {SubSeq(text, i, j) : i \in 1..(Len(text) + 1), j \in 0..Len(text)}

\* the text is a JSON object
IsObject(text) == text # <<>> /\ text[1] = "{" /\ JsonParse(text).ok

\* C21: when the input, fence markers and surrounding whitespace removed, is
\* the JSON object with should_respond true and the string content x,
\* parseAgentResponse returns shouldRespond true and content x, unchanged
C21_WellFormedSpeak ==
  parsing.pc = "returned"
    => \A x \in Inner(Cleaned) :
         IsSpeakObject(Cleaned, x) => parsing.result = [shouldRespond |-> TRUE, content |-> x]

C21_Witness ==
  /\ parsing.pc = "returned"
  /\ parsing.content = <<"J", "_", "{", "C", "Q", "_", "b", "_", "Q", ",", "S", "t", "}", "_", "F">>
  /\ parsing.result = [shouldRespond |-> TRUE, content |-> <<"_", "b", "_">>]

\* C22: for every input that is not a JSON object (prose, a bare JSON
\* scalar, malformed JSON) parseAgentResponse returns shouldRespond true and
\* the trimmed raw input, and every call returns
C22_FallbackOnUnstructured ==
  /\ parsing.pc \in {"call", "returned"}
  /\ (parsing.pc = "returned" /\ ~IsObject(Cleaned))
       => parsing.result = [shouldRespond |-> TRUE, content |-> Trim(parsing.content)]

\* C23: for an input that is a JSON object, a should_respond that is
\* missing or not a boolean gives shouldRespond false, false gives false,
\* and a content that is missing or not a string gives content ""
C23_Coercion ==
  (parsing.pc = "returned" /\ IsObject(Cleaned))
    => LET parsed == JsonParse(Cleaned)
       IN  /\ parsed.sr.t # "t" => ~parsing.result.shouldRespond
           /\ parsed.content.t # "str" => parsing.result.content = <<>>

\* C24: a reply that is not a JSON object never ends the round by itself:
\* unless a hook throws or the body read fails, the turn goes back to the
\* loop with the error unchanged, and the agent speaks the trimmed raw text
\* exactly when that text is not empty
C24_RawTextFallback ==
  [][(Arrived /\ ~IsObject(stripJsonCodeFence(content)) /\ turn'.outcome # "error")
       => /\ pc' = "loop"
          /\ error' = error
          /\ IF Trim(content) # <<>>
             THEN /\ responded' = responded + 1
                  /\ Len(spoken') = Len(spoken) + 1
                  /\ spoken'[Len(spoken')].content = Trim(content)
                  /\ spoken'[Len(spoken')].agentId = agent
             ELSE /\ responded' = responded
                  /\ spoken' = spoken]_vars

\* what the server put on one line: the delta of a well-formed data line
Carries(line) ==
  IF line = <<"D", "a">> THEN <<(<<"a">>)>>
  ELSE IF line = <<"D", "_", "b">> THEN <<(<<"b">>)>>
  ELSE <<>>

\* the lines the server sent before its first [DONE] line
RECURSIVE BeforeDone(_)
BeforeDone(lines) ==
  IF lines = <<>> \/ Head(lines) = <<"D", "Z">> THEN <<>>
  ELSE <<Head(lines)>> \o BeforeDone(Tail(lines))

RECURSIVE Sent(_)
Sent(lines) == IF lines = <<>> THEN <<>> ELSE Carries(Head(lines)) \o Sent(Tail(lines))

IsPrefix(short, long) ==
  Len(short) <= Len(long) /\ short = SubSeq(long, 1, Len(short))

\* C25: a data line whose payload does not decode never makes the stream
\* read throw; it is skipped, and when the read returns every well-formed
\* line before [DONE] has delivered its delta, in order, and the content
\* accumulated from onChunk is their concatenation.
C25_BadLineSkipped ==
  /\ reader.pc # "threw"
  /\ reader.pc = "returned" =>
       /\ reader.deltas = Sent(BeforeDone(reader.lines))
       /\ reader.content = Concat(Sent(BeforeDone(reader.lines)))

C25_Witness ==
  /\ reader.pc = "returned"
  /\ reader.lines = <<(<<"D", "a">>), <<"D", "x">>, <<"D", "_", "b">>>>
  /\ reader.content = <<"a", "b">>

\* C26: nothing carried by a line after the first [DONE] line is ever
\* delivered to onChunk: at every moment of the read the delivered deltas
\* are a prefix of those sent before [DONE], however the body is cut.
C26_DoneEndsRead ==
  reader.pc # "idle" =>
    /\ IsPrefix(reader.deltas, Sent(BeforeDone(reader.lines)))
    /\ IsPrefix(reader.content, Concat(Sent(BeforeDone(reader.lines))))

C26_Witness ==
  /\ reader.pc = "returned"
  /\ reader.lines = <<(<<"D", "a">>), <<"D", "Z">>, <<"D", "_", "b">>>>
  /\ reader.content = <<"a">>
  /\ reader.chunks = <<>>
  /\ reader.buffer = <<>>

\* the content updates notified by the step just taken
Updates(events) == SelectSeq(events, LAMBDA e : e.type = "updated")

\* the placeholder of a streaming turn is announced empty, before any update
PlaceholderAddedFirst ==
  /\ Updates(emitted') # <<>> => pc = "streaming"
  /\ (pc = "request" /\ pc' = "streaming") =>
       /\ content' = <<>>
       /\ Updates(emitted') = <<>>
       /\ \E i \in 1..Len(emitted') :
            /\ emitted'[i].type = "added"
            /\ emitted'[i].id = placeholderId'
            /\ emitted'[i].content = <<>>

\* an update that carries the text shown so far followed by the next delta
IsNextPrefix(e) ==
  /\ e.id = placeholderId
  /\ stream # <<>>
  /\ Head(stream) # <<>>
  /\ e.content = content \o Head(stream)
  /\ content' = e.content

\* C27 as stated: the placeholder is added empty before any update, and every
\* content update of a streaming turn targets the placeholder and carries
\* the previous content followed by the next delta.
C27_EveryUpdateGrows ==
  [][/\ PlaceholderAddedFirst
     /\ \A i \in 1..Len(Updates(emitted')) : IsNextPrefix(Updates(emitted')[i])]_vars

\* C27 amended: the placeholder is added empty before any update; while the
\* stream is read each step notifies exactly one update, to the placeholder,
\* carrying the previous content followed by the next non-empty delta; when
\* the read has returned, a turn that speaks notifies one last update to the
\* placeholder carrying the trimmed parsed content, and no other step
\* notifies an update.
C27_StreamedUpdatesGrow ==
  [][/\ PlaceholderAddedFirst
     /\ (pc = "streaming" /\ pc' = "streaming") =>
          /\ Len(Updates(emitted')) = 1
          /\ IsNextPrefix(Updates(emitted')[1])
     /\ (pc = "streaming" /\ pc' # "streaming") =>
          /\ stream = <<>> \/ pc' = "returned"
          /\ Len(Updates(emitted')) <= 1
          /\ \A i \in 1..Len(Updates(emitted')) :
               /\ Updates(emitted')[i].id = placeholderId
               /\ Updates(emitted')[i].content = Trim(parseResponse(content).content)
               /\ responded' = responded + 1]_vars

\* the second delta of a streamed reply has just been shown
C27_Witness ==
  /\ pc = "streaming"
  /\ stream = <<>>
  /\ content = SpeakJson
  /\ Len(emitted) = 1
  /\ emitted[1] = onMessageUpdated(placeholderId, SpeakJson)

\* the mirror agrees with the log on id, content and time at every position,
\* so syncContext neither resets it nor replaces an entry
InStep(ctx, messages) ==
  /\ Len(ctx) = Len(messages)
  /\ \A i \in 1..Len(ctx) :
       /\ ctx[i].id = messages[i].id
       /\ ctx[i].content = messages[i].content
       /\ ctx[i].time = messages[i].time

\* C28: a second syncContext with the same log changes nothing: after the
\* first call the mirror is in step with the log, and the second call leaves
\* every entry as it was, none added and none removed.
C28_SyncIdempotent ==
  /\ syncing.pc \in {"synced", "resynced"} => InStep(syncing.first, syncing.messages)
  /\ syncing.pc = "resynced" => syncing.second = syncing.first

\* both entries of the mirror were stale before the first call
C28_Witness ==
  /\ syncing.pc = "resynced"
  /\ Len(syncing.context) = 2
  /\ Len(syncing.messages) = 2
  /\ InStep(syncing.second, syncing.messages)
  /\ \A i \in 1..2 :
       /\ syncing.context[i].id = syncing.messages[i].id
       /\ syncing.context[i].content # syncing.messages[i].content
       /\ syncing.context[i].time # syncing.messages[i].time

\* the onAgentSpoke notifications of the step just taken
Spoke(events) == SelectSeq(events, IsSpoke)

\* C29: onAgentSpoke is fired once in the step that increments responded and
\* in no other step, so the count kept by the caller equals responded; the
\* message it carries is in the log at that moment, is written by the picked
\* agent and holds the final trimmed content.
C29_SpokeOncePerResponse ==
  /\ [](spokeThisRound = responded)
  /\ [][/\ Len(Spoke(emitted')) = (IF responded' = responded + 1 THEN 1 ELSE 0)
        /\ \A k \in 1..Len(Spoke(emitted')) :
             LET e == Spoke(emitted')[k]
             IN  /\ e.agentId = agent
                 /\ e.content = Trim(parseResponse(content).content)
                 /\ \E i \in 1..Len(currentMessages') :
                      /\ currentMessages'[i].id = e.id
                      /\ currentMessages'[i].agentId = e.agentId
                      /\ currentMessages'[i].content = e.content]_vars

\* the second response of a round has just been announced
C29_Witness ==
  /\ responded = 2
  /\ spokeThisRound = 2
  /\ Len(Spoke(emitted)) = 1
  /\ Spoke(emitted)[1].content = <<"b">>

\* the messages announced as added by the step just taken
Added(events) == SelectSeq(events, LAMBDA e : e.type = "added")

\* C30: every message the round adds, placeholder or not, gets an id that no
\* message already in the log has, messages of the input log included.
C30_FreshIds ==
  [][\A k \in 1..Len(Added(emitted')) :
       /\ \A i \in 1..Len(currentMessages) : currentMessages[i].id # Added(emitted')[k].id
       /\ Len(currentMessages') = Len(currentMessages) + 1
       /\ currentMessages'[Len(currentMessages')].id = Added(emitted')[k].id]_vars

\* C31: with more than one agent the agent picked for a turn is not the
\* author of the latest agent message of the log, and no message added by the
\* round directly follows an agent message of the same author.
C31_NotLastSpeaker ==
  /\ [][(params.n > 1 /\ pc = "loop" /\ pc' = "request")
         => agent' # LastSpeaker(currentMessages)]_vars
  /\ [](params.n > 1 =>
          \A i \in (Len(params.messages) + 1)..Len(currentMessages) :
            (i > 1 /\ currentMessages[i - 1].role = "agent")
              => currentMessages[i].agentId # currentMessages[i - 1].agentId)

\* this.context has the id sequence of messages
SameIds(ctx, messages) ==
  /\ Len(ctx) = Len(messages)
  /\ \A i \in 1..Len(ctx) : ctx[i].id = messages[i].id

\* C32: after syncContext the mirror has the length of the log and its id,
\* content and time at every position; when the id sequences were equal, an
\* entry with the log's content and time is left as it was and any other
\* entry keeps its remaining fields and takes the log's content and time;
\* otherwise the mirror is the log, entry for entry.
C32_SyncResult ==
  syncing.pc \in {"synced", "resynced"} =>
    /\ InStep(syncing.first, syncing.messages)
    /\ IF SameIds(syncing.context, syncing.messages)
       THEN \A i \in 1..Len(syncing.context) :
              LET existing == syncing.context[i]
                  next == syncing.messages[i]
              IN  IF existing.content = next.content /\ existing.time = next.time
                  THEN syncing.first[i] = existing
                  ELSE syncing.first[i] =
                         [id |-> existing.id, agentId |-> existing.agentId,
                          role |-> existing.role, content |-> next.content,
                          time |-> next.time]
       ELSE syncing.first = syncing.messages

\* same ids: the first entry differs from the log's in its author only and is
\* kept, the second is stale and patched
C32_Witness ==
  /\ syncing.pc = "synced"
  /\ Len(syncing.context) = 2
  /\ SameIds(syncing.context, syncing.messages)
  /\ syncing.context[1].agentId # syncing.messages[1].agentId
  /\ syncing.first[1] = syncing.context[1]
  /\ syncing.context[2].content # syncing.messages[2].content
  /\ syncing.first[2].content = syncing.messages[2].content

\* no two messages of the log share an id
UniqueIds(log) ==
  \A i, j \in 1..Len(log) : log[i].id = log[j].id => i = j

\* C33: when the log has unique ids and the mirror equals it, the mirror
\* still equals the log after the orchestrator's mutation and the matching
\* observeMessage call; an update or a removal naming an id the mirror does
\* not hold leaves the mirror as it was.
C33_MirrorFollows ==
  syncing.pc = "observed" =>
    /\ (UniqueIds(syncing.before.log) /\ syncing.before.context = syncing.before.log)
         => syncing.context = syncing.log
    /\ (/\ syncing.op \in {"updated", "removed"}
        /\ findIndex(syncing.before.context, syncing.id, 1) = 0)
         => syncing.context = syncing.before.context

\* the second of two messages was updated in the log and in the mirror
C33_Witness ==
  /\ syncing.pc = "observed"
  /\ syncing.op = "updated"
  /\ Len(syncing.before.log) = 2
  /\ UniqueIds(syncing.before.log)
  /\ syncing.before.context = syncing.before.log
  /\ syncing.id = syncing.before.log[2].id
  /\ syncing.log # syncing.before.log
  /\ syncing.context = syncing.log

\* the speaker label of a mirrored message
SpeakerName(message) ==
  IF message.agentId = 0 THEN "S"
  ELSE IF message.agentId = 1 THEN "A"
  ELSE IF message.agentId = 2 THEN "B"
  ELSE "U"

\* one "<speaker-name>: <content>" line per message, separated by newlines
RECURSIVE Transcript(_)
Transcript(ctx) ==
  IF ctx = <<>> THEN <<>>
  ELSE <<SpeakerName(Head(ctx)), ":", "_">> \o Head(ctx).content
       \o (IF Len(ctx) = 1 THEN <<>> ELSE <<"N">> \o Transcript(Tail(ctx)))

C35_StatusOrder ==
  [][LET TurnEnds ==
           \/ InTurn /\ pc' \notin {"request", "streaming", "json", "parse"}
           \/ pc = "loop" /\ pc' = "rejected" /\ params.n > 0
     IN
     /\ \A i \in 1..Len(emitted') :
          LET e == emitted'[i]
          IN  /\ (e.type = "status" /\ e.status = "thinking")
                   => /\ pc = "loop" /\ i = 1
                      /\ e.agentId = agent'
                      /\ requests' \in {requests, requests + 1}
              /\ (e.type = "status" /\ e.status = "speaking")
                   => /\ e.agentId = agent
                      /\ status[agent] = "thinking"
                      /\ i < Len(emitted')
                      /\ emitted'[i + 1].type = "added"
                      /\ emitted'[i + 1].agentId = agent
              /\ (e.type = "status" /\ e.status = "idle")
                   => /\ e.agentId = agent
                      /\ i = Len(emitted')
                      /\ TurnEnds
              /\ e.type = "added"
                   => /\ i > 1
                      /\ emitted'[i - 1] = onAgentStatus(agent, "speaking")
     /\ (pc = "loop" /\ pc' = "request")
          => emitted' = <<onAgentStatus(agent', "thinking")>>
     /\ TurnEnds
          => /\ emitted' # <<>>
             /\ emitted'[Len(emitted')].type = "status"
             /\ emitted'[Len(emitted')].status = "idle"]_vars

\* C36: in the log a round returns, with or without an error, every message
\* added by the round is an agent message with non-empty content, and it is
\* the message a turn finalized with the trimmed content of its parsed reply.
C36_NoPlaceholderLeft ==
  pc = "returned" =>
    \A i \in 1..Len(NewMessages) :
      /\ NewMessages[i].role = "agent"
      /\ NewMessages[i].content # <<>>
      /\ \E j \in 1..Len(spoken) : spoken[j] = NewMessages[i]

\* C37: without shuffling and with at least two agents, in any window of N
\* consecutive attempts every agent that was the last speaker at none of
\* them has been polled.
C37_NoStarvation ==
  (picking.pc = "picking" /\ picking.n >= 2 /\ Len(picking.polls) = picking.n)
    => \A a \in 1..picking.n :
         (\A i \in 1..picking.n : picking.polls[i].avoid # a)
           => \E i \in 1..picking.n : picking.polls[i].agent = a

\* three attempts with the same last speaker: it is passed over, one other
\* agent is polled twice
C37_Witness ==
  /\ picking.pc = "picking"
  /\ picking.n = 3
  /\ Len(picking.polls) = 3
  /\ \A i \in 1..3 : picking.polls[i].avoid = 2
  /\ picking.polls[1].agent = picking.polls[3].agent

\* C38: however the newline-terminated lines are cut into read chunks, also
\* inside a line, onChunk has received at return the deltas, in the order, it
\* receives when the body arrives as one chunk.
C38_SplitIndependent ==
  LET pieces == Split(Bytes(reader.lines), <<>>)
      WholeRead == ProcessLines(SubSeq(pieces, 1, Len(pieces) - 1), <<>>).deltas
  IN  reader.pc = "returned" => reader.deltas = WholeRead

\* a body of two delta lines cut inside its first line
C38_Witness ==
  /\ reader.pc = "returned"
  /\ Len(reader.read) = 2
  /\ reader.read[1] = <<"D">>
  /\ reader.deltas = <<(<<"a">>), <<"b">>>>

\* C39: when a round finishes, the page's log holds no message of a
\* conversation that a reset or a clear has ended.
C39_ResetKept ==
  [][(ui'.active < ui.active)
       => \A i \in 1..Len(ui'.state.messages) :
            ui'.state.messages[i].conversation = ui.conversation]_vars

====
